---- MODULE Spec2Model ----
(***************************************************************************)
(* Post-processing / instance-segmentation fusion engine of                *)
(* src/inference/postprocessing.py, as a state machine.                    *)
(*                                                                         *)
(* A label image is a function from the pixels of a grid to the naturals,  *)
(* 0 being background; a boolean mask is the set of its True pixels.  Rows *)
(* and columns are numbered from 0, as numpy numbers them.  Areas are      *)
(* pixel counts.                                                           *)
(***************************************************************************)
EXTENDS Integers, Sequences, FiniteSets, TLC

VARIABLES pc, callee, args, ret, image, next_usable_label, todo, last,
          th_seed, seeds

vars == <<pc, callee, args, ret, image, next_usable_label, todo, last,
          th_seed, seeds>>

(***************************************************************************)
(* Bounds of the model: the grid, and the area thresholds passed as        *)
(* arguments.                                                              *)
(***************************************************************************)
MaxRow == 2
MaxCol == 5
MaxThreshold == 3

Rows == 0 .. MaxRow
Cols == 0 .. MaxCol
Pixel == Rows \X Cols

\* The objects of the input images are drawn inside this corner of the grid.
Window == (0 .. 2) \X (0 .. 1)

None == "None"
Idle == "idle"

(***************************************************************************)
(* numpy arrays.                                                           *)
(***************************************************************************)
Zeros == [p \in Pixel |-> 0]

\* image > 0, image == v (and image >= v in its place)
Positive(img) == {p \in DOMAIN img : img[p] > 0}
AtLeast(img, v) == {p \in DOMAIN img : img[p] >= v}
Equal(img, v) == {p \in DOMAIN img : img[p] = v}

\* np.unique(image) without the background
Ids(img) == {img[p] : p \in DOMAIN img} \ {0}

Max(S) == CHOOSE m \in S : \A x \in S : x <= m
Min(S) == CHOOSE m \in S : \A x \in S : m <= x

\* the elements of a finite set of integers, ascending
RECURSIVE Ascending(_)
Ascending(S) == IF S = {} THEN <<>> ELSE <<Min(S)>> \o Ascending(S \ {Min(S)})

\* image[mask] = v
Assign(img, mask, v) == [p \in DOMAIN img |-> IF p \in mask THEN v ELSE img[p]]

(***************************************************************************)
(* skimage.measure.label: connected components of equal, non-zero values,  *)
(* full (8-) connectivity, numbered 1..N in raster order of their first    *)
(* pixel.                                                                  *)
(***************************************************************************)
Abs(x) == IF x < 0 THEN -x ELSE x

Adjacent(p, q) == p # q /\ Abs(p[1] - q[1]) <= 1 /\ Abs(p[2] - q[2]) <= 1

\* S grown by the pixels of value v reached from its latest pixels
RECURSIVE Grow(_, _, _, _)
Grow(img, v, S, latest) ==
    LET reached == {q \in DOMAIN img \ S :
                       img[q] = v /\ \E p \in latest : Adjacent(p, q)}
    IN  IF reached = {} THEN S ELSE Grow(img, v, S \cup reached, reached)

Component(img, p) == Grow(img, img[p], {p}, {p})

Components(img) == {Component(img, p) : p \in Positive(img)}

ColumnBefore(p, q) == p[2] < q[2] \/ (p[2] = q[2] /\ p[1] < q[1])

RasterBefore(p, q) == p[1] < q[1] \/ (p[1] = q[1] /\ p[2] < q[2])

FirstPixel(S) == CHOOSE p \in S : \A q \in S : p = q \/ RasterBefore(p, q)

RECURSIVE LabelScan(_, _, _, _)
LabelScan(img, out, rest, n) ==
    IF rest = {} THEN out
    ELSE LET p == FirstPixel(rest)
             C == Component(img, p)
         IN  LabelScan(img, Assign(out, C, n), rest \ C, n + 1)

label(img) == LabelScan(img, [p \in DOMAIN img |-> 0], Positive(img), 1)

(***************************************************************************)
(* skimage.measure.regionprops: one region per label value present, in     *)
(* ascending order of the value; its area is the number of pixels that     *)
(* carry the value, connected or not.                                      *)
(***************************************************************************)
regionprops(img) == Ascending(Ids(img))

Area(img, v) == Cardinality(Equal(img, v))

(***************************************************************************)
(* Input images.  A painting is the background with up to two rectangles   *)
(* of the window painted over it, the second over the first; its label     *)
(* values need not be consecutive nor follow connectivity.                 *)
(***************************************************************************)
Rect(r1, r2, c1, c2) ==
    {p \in Window : r1 <= p[1] /\ p[1] <= r2 /\ c1 <= p[2] /\ p[2] <= c2}

Rectangles ==
    {Rect(p[1], q[1], p[2], q[2]) : p \in Window, q \in Window} \ {{}}

Paintings ==
    {Assign(Assign(Zeros, a, 1), b, v) :
        a \in Rectangles \cup {{}}, b \in Rectangles \cup {{}}, v \in 1 .. 2}

(***************************************************************************)
(* remove_smaller_areas(seeds, area_threshold)                             *)
(***************************************************************************)
Raise(what) == [err |-> what, val |-> None]
Return(v) == [err |-> None, val |-> v]

\* array.size, and the number of label values in its place
RegionsSize(array) == Cardinality(Ids(array))

Size(array) == Cardinality(DOMAIN array)

\* area_threshold < 0, and the test with 0 rejected too
NegativeOrZero(area_threshold) == area_threshold <= 0

Negative(area_threshold) == area_threshold < 0

remove_smaller_areas(sd, area_threshold) ==
    IF Size(sd) = 0
    THEN Raise("ValueError")
    ELSE IF Negative(area_threshold)
    THEN Raise("ValueError")
    ELSE LET filtered_seeds ==
                 [p \in DOMAIN sd |->
                     IF sd[p] # 0 /\ Area(sd, sd[p]) <= area_threshold
                     THEN 0 ELSE sd[p]]
         IN  Return(label(filtered_seeds))

(***************************************************************************)
(* refine_objects_by_overlapping(base_image, refiner_image, max_cell_area) *)
(* The areas are read from the image being refined, at the region's turn.  *)
(***************************************************************************)
\* RefineStep with the area test made inclusive
RefineStepInclusive(refined_image, refiner_mask, lab, max_cell_area) ==
    LET current_label_mask == Equal(refined_image, lab)
        overlap_mask == current_label_mask \cap refiner_mask
    IN  IF Area(refined_image, lab) <= max_cell_area
        THEN IF overlap_mask # {}
             THEN Assign(Assign(refined_image, current_label_mask, 0),
                         overlap_mask, lab)
             ELSE Assign(refined_image, current_label_mask, 0)
        ELSE refined_image

RefineStep(refined_image, refiner_mask, lab, max_cell_area) ==
    LET current_label_mask == Equal(refined_image, lab)
        overlap_mask == current_label_mask \cap refiner_mask
    IN  IF Area(refined_image, lab) < max_cell_area
        THEN IF overlap_mask # {}
             THEN Assign(Assign(refined_image, current_label_mask, 0),
                         overlap_mask, lab)
             ELSE Assign(refined_image, current_label_mask, 0)
        ELSE refined_image

RECURSIVE RefineLoop(_, _, _, _)
RefineLoop(refined_image, refiner_mask, props, max_cell_area) ==
    IF props = <<>> THEN refined_image
    ELSE RefineLoop(RefineStep(refined_image, refiner_mask, Head(props),
                               max_cell_area),
                    refiner_mask, Tail(props), max_cell_area)

refine_objects_by_overlapping(base_image, refiner_image, max_cell_area) ==
    RefineLoop(base_image, Positive(refiner_image), regionprops(base_image),
               max_cell_area)

(***************************************************************************)
(* get_maximum_label(image)                                                *)
(***************************************************************************)
\* the smallest value of the image in place of the largest
get_minimum_label(img) == Min({img[p] : p \in DOMAIN img})

get_maximum_label(img) == Max({img[p] : p \in DOMAIN img})

(***************************************************************************)
(* The overlap queries.  A marker is an array with its dtype; a ratio is a *)
(* pair <<numerator, denominator>>, the ratio of an empty marker being nan *)
(* (0/0), which compares False with everything.                            *)
(*                                                                         *)
(* The grids of the model hold far fewer than 4000 pixels: the hard-coded  *)
(* minimum area of a host of get_overlapping_components is scaled down to  *)
(* MIN_COMPONENT_AREA pixels, and the area thresholds that are arguments   *)
(* (min_cell_area, max_cell_area, area_threshold) are drawn from           *)
(* 0 .. MaxThreshold, on both sides of it.                                 *)
(***************************************************************************)
MIN_COMPONENT_AREA == 2

UINT16 == 65536

BoolMarker(m) == [dtype |-> "bool", mask |-> m]

IsPositive(ratio) == ratio[2] > 0 /\ ratio[1] > 0

RatioLeq(a, b) == a[2] > 0 /\ b[2] > 0 /\ a[1] * b[2] <= b[1] * a[2]

\* (None, None, None), and a triple that was found
NotFound == [none |-> TRUE, label |-> 0, mask |-> {}, ratio |-> <<0, 0>>]
Found(l, m, r) == [none |-> FALSE, label |-> l, mask |-> m, ratio |-> r]

\* OverlapScan returning the component that overlaps the marker most
RECURSIVE OverlapScanBest(_, _, _, _)
OverlapScanBest(labels, marker, maximum_cells_overlap, unique_labels) ==
    LET ok == {l \in Ids(labels) :
                /\ Equal(labels, l) \cap marker # {}
                /\ RatioLeq(<<Cardinality(Equal(labels, l) \cap marker),
                              Cardinality(marker)>>, maximum_cells_overlap)
                /\ Cardinality(Equal(labels, l)) >= MIN_COMPONENT_AREA}
        best == CHOOSE l \in ok : \A k \in ok :
                    \/ Cardinality(Equal(labels, k) \cap marker)
                           < Cardinality(Equal(labels, l) \cap marker)
                    \/ /\ Cardinality(Equal(labels, k) \cap marker)
                           = Cardinality(Equal(labels, l) \cap marker)
                       /\ l <= k
    IN  IF ok = {} THEN NotFound
        ELSE Found(best, Equal(labels, best),
                   <<Cardinality(Equal(labels, best) \cap marker),
                     Cardinality(marker)>>)

RECURSIVE OverlapScan(_, _, _, _)
OverlapScan(labels, marker, maximum_cells_overlap, unique_labels) ==
    IF unique_labels = <<>> THEN NotFound
    ELSE LET label_value == Head(unique_labels)
             current_image_mask == Equal(labels, label_value)
             overlap_ratio == <<Cardinality(current_image_mask \cap marker),
                                Cardinality(marker)>>
         IN  IF /\ label_value # 0
                /\ IsPositive(overlap_ratio)
                /\ RatioLeq(overlap_ratio, maximum_cells_overlap)
                /\ Cardinality(current_image_mask) >= MIN_COMPONENT_AREA
             THEN Found(label_value, current_image_mask, overlap_ratio)
             ELSE OverlapScan(labels, marker, maximum_cells_overlap,
                              Tail(unique_labels))

\* np.unique(labels).astype(np.uint16)
UniqueLabels(labels) ==
    Ascending({labels[p] : p \in DOMAIN labels})

AsUint16(s) == [i \in DOMAIN s |-> s[i] % UINT16]

get_overlapping_components(original_image, marker, maximum_cells_overlap) ==
    IF marker.dtype # "bool"
    THEN Raise("ValueError")
    ELSE LET labels == label(original_image)
         IN  Return(OverlapScan(labels, marker.mask, maximum_cells_overlap,
                                AsUint16(UniqueLabels(labels))))

\* NucleiScan asking for more than minimum_component_dim pixels
RECURSIVE NucleiScanStrict(_, _, _, _)
NucleiScanStrict(labels, marker, minimum_component_dim, unique_labels) ==
    IF unique_labels = <<>> THEN NotFound
    ELSE LET label_value == Head(unique_labels)
             current_image_mask == Equal(labels, label_value)
             overlap_ratio == <<Cardinality(current_image_mask \cap marker),
                                Cardinality(marker)>>
         IN  IF /\ label_value # 0
                /\ IsPositive(overlap_ratio)
                /\ Cardinality(current_image_mask) > minimum_component_dim
             THEN Found(label_value, current_image_mask, overlap_ratio)
             ELSE NucleiScanStrict(labels, marker, minimum_component_dim,
                                   Tail(unique_labels))

RECURSIVE NucleiScan(_, _, _, _)
NucleiScan(labels, marker, minimum_component_dim, unique_labels) ==
    IF unique_labels = <<>> THEN NotFound
    ELSE LET label_value == Head(unique_labels)
             current_image_mask == Equal(labels, label_value)
             overlap_ratio == <<Cardinality(current_image_mask \cap marker),
                                Cardinality(marker)>>
         IN  IF /\ label_value # 0
                /\ IsPositive(overlap_ratio)
                /\ Cardinality(current_image_mask) >= minimum_component_dim
             THEN Found(label_value, current_image_mask, overlap_ratio)
             ELSE NucleiScan(labels, marker, minimum_component_dim,
                             Tail(unique_labels))

\* the query without the test of the marker's dtype
get_nuclei_unchecked(original_image, marker, minimum_component_dim) ==
    LET labels == label(original_image)
    IN  Return(NucleiScan(labels, marker.mask, minimum_component_dim,
                          AsUint16(UniqueLabels(labels))))

get_nuclei_connected_components(original_image, marker, minimum_component_dim) ==
    IF marker.dtype # "bool"
    THEN Raise("ValueError")
    ELSE LET labels == label(original_image)
         IN  Return(NucleiScan(labels, marker.mask, minimum_component_dim,
                               AsUint16(UniqueLabels(labels))))

(***************************************************************************)
(* foi_correction(mask, cell_type).  The margins 50 and 25 of the source   *)
(* are scaled down with the grid, E_LARGE > E_SMALL > 0.  The mask is      *)
(* changed in place; `returned' names the array the function returns.      *)
(***************************************************************************)
E_LARGE == 2
E_SMALL == 1

CellTypesLarge ==
    {"DIC-C2DH-HeLa", "Fluo-C2DL-Huh7", "Fluo-C2DL-MSC", "Fluo-C3DH-H157",
     "Fluo-N2DH-GOWT1", "Fluo-N3DH-CE", "Fluo-N3DH-CHO", "PhC-C2DH-U373"}

CellTypesSmall ==
    {"BF-C2DL-HSC", "BF-C2DL-MuSC", "Fluo-C3DL-MDA231", "Fluo-N2DL-HeLa",
     "PhC-C2DL-PSC"}

FoiMargin(cell_type) ==
    IF cell_type \in CellTypesLarge THEN E_LARGE
    ELSE IF cell_type \in CellTypesSmall THEN E_SMALL
    ELSE 0

\* Inset with the margin taken off the top and the left only
InsetOneSided(mask, E) == {p \in DOMAIN mask : E <= p[1] /\ E <= p[2]}

\* the pixels of mask[E:mask.shape[0] - E, E:mask.shape[1] - E]
Inset(mask, E) ==
    LET shape0 == 1 + Max({p[1] : p \in DOMAIN mask})
        shape1 == 1 + Max({p[2] : p \in DOMAIN mask})
    IN  {p \in DOMAIN mask :
            /\ E <= p[1] /\ p[1] < shape0 - E
            /\ E <= p[2] /\ p[2] < shape1 - E}

\* net_utils.utils.get_nucleus_ids: the ids of an array, background excluded
get_nucleus_ids(values) == Ascending(values \ {0})

RECURSIVE FoiLoop(_, _, _)
FoiLoop(mask, ids_prediction, ids_foi) ==
    IF ids_prediction = <<>> THEN mask
    ELSE LET id_prediction == Head(ids_prediction)
         IN  FoiLoop(IF \E i \in DOMAIN ids_foi : ids_foi[i] = id_prediction
                     THEN mask
                     ELSE Assign(mask, Equal(mask, id_prediction), 0),
                     Tail(ids_prediction), ids_foi)

foi_correction(mask, cell_type) ==
    LET E == FoiMargin(cell_type)
        ids_foi == get_nucleus_ids({mask[p] : p \in Inset(mask, E)})
        ids_prediction == get_nucleus_ids({mask[p] : p \in DOMAIN mask})
    IN  [mask |-> FoiLoop(mask, ids_prediction, ids_foi), returned |-> "mask"]

(***************************************************************************)
(* skimage.morphology.dilation(current_mask.astype(int), square(9)): an    *)
(* integer array, 1 within 4 rows and 4 columns of a pixel of the mask and *)
(* 0 elsewhere.                                                            *)
(***************************************************************************)
SQUARE == 9

dilation(mask, size) ==
    [p \in Pixel |->
        IF \E q \in mask : /\ 2 * Abs(p[1] - q[1]) < size
                           /\ 2 * Abs(p[2] - q[2]) < size
        THEN 1 ELSE 0]

\* image[index] = v for an integer index array: numpy takes the values of
\* the index as row numbers and assigns the whole rows.
AssignRows(img, index, v) ==
    LET rows == {index[p] : p \in DOMAIN index}
    IN  [p \in DOMAIN img |-> IF p[1] \in rows THEN v ELSE img[p]]

(***************************************************************************)
(* One turn of the loop of add_objects_by_overlapping, for the region of   *)
(* value lab of single_channel_image.  mask is (base_image > 0), taken     *)
(* before the loop.                                                        *)
(***************************************************************************)
Step(kind, img, counter, written, host) ==
    [kind |-> kind, image |-> img, next_usable_label |-> counter,
     written |-> written, host |-> host]

add_objects_step(img, counter, single_channel_image, mask, lab, cells_overlap, min_cell_area) ==
    LET current_mask == Equal(single_channel_image, lab)
        overlap_mask == current_mask \cap mask
        found == get_overlapping_components(img, BoolMarker(current_mask),
                                            cells_overlap).val
        dilated_current_mask == dilation(current_mask, SQUARE)
    IN  IF Cardinality(overlap_mask) > 0
        THEN IF found.none
             THEN Step("no_host", img, counter, 0, {})
             ELSE IF Cardinality(found.mask) >= min_cell_area
             THEN Step("carve",
                       Assign(AssignRows(img, dilated_current_mask, 0),
                              current_mask, counter),
                       counter + 1, counter, found.mask)
             ELSE Step("discard", img, counter, 0, found.mask)
        ELSE Step("new", Assign(img, current_mask, counter), counter + 1,
                  counter, {})

(***************************************************************************)
(* One turn of the loop of add_nuclei_by_overlapping.                      *)
(***************************************************************************)
add_nuclei_step(img, counter, single_channel_image, mask, lab, min_cell_area) ==
    LET current_mask == Equal(single_channel_image, lab)
        overlap_mask == current_mask \cap mask
        found == get_nuclei_connected_components(
                     img, BoolMarker(current_mask), min_cell_area).val
        final_mask == found.mask \cup current_mask
    IN  IF Cardinality(overlap_mask) > 0
        THEN IF ~found.none
             THEN Step("union", Assign(img, final_mask, found.label),
                       counter, found.label, found.mask)
             ELSE Step("no_host", img, counter, 0, {})
        ELSE Step("new", Assign(img, current_mask, counter), counter + 1,
                  counter, {})

(***************************************************************************)
(* filter_regions_by_size(mask, min_dim, max_dim): the labels and their    *)
(* pixel counts come from np.unique(mask, return_counts=True), the         *)
(* background among them.                                                  *)
(***************************************************************************)
\* the test of line 660 with both bounds included
KeptInclusive(count, min_dim, max_dim) == count >= min_dim /\ count <= max_dim

Kept(count, min_dim, max_dim) == count > min_dim /\ count < max_dim

filter_regions_by_size(mask, min_dim, max_dim) ==
    LET labels == {mask[p] : p \in DOMAIN mask}
        counts == [v \in labels |-> Cardinality(Equal(mask, v))]
    IN  IF min_dim < 1
        THEN Raise("ValueError")
        ELSE IF max_dim < min_dim
        THEN Raise("ValueError")
        ELSE Return([p \in DOMAIN mask |->
                        IF Kept(counts[mask[p]], min_dim, max_dim)
                        THEN mask[p] ELSE 0])

(***************************************************************************)
(* border_cell_post_processing(border_prediction, cell_prediction, args).  *)
(*                                                                         *)
(* The predictions are arrays of one row.  A prediction and a threshold    *)
(* are given in hundredths (45 is 0.45); a smoothed map is in units of     *)
(* 1 / (100 * Unit), Unit being the sum of the integer kernel weights.     *)
(***************************************************************************)
WsMaxCol == 39

WsPixel == {0} \X (0 .. WsMaxCol)

\* scipy.ndimage.gaussian_filter(sigma=0.5): radius int(4 * 0.5 + 0.5) = 2,
\* weights exp(-2 x^2) normalised (0.00026, 0.10645, 0.78657, ...), here in
\* ten-thousandths; mode 'reflect' (d c b a | a b c d | d c b a).  Along the
\* axis of length 1 the filter is the identity.
GaussianKernel == <<3, 1064, 7866, 1064, 3>>

Unit == GaussianKernel[1] + GaussianKernel[2] + GaussianKernel[3]
            + GaussianKernel[4] + GaussianKernel[5]

Reflect(c, width) ==
    IF c < 0 THEN -c - 1 ELSE IF c >= width THEN 2 * width - 1 - c ELSE c

Width(img) == 1 + Max({p[2] : p \in DOMAIN img})

gaussian_filter(img) ==
    LET width == Width(img)
        at(p, k) == img[<<p[1], Reflect(p[2] + k - 3, width)>>]
    IN  [p \in DOMAIN img |->
            GaussianKernel[1] * at(p, 1) + GaussianKernel[2] * at(p, 2)
              + GaussianKernel[3] * at(p, 3) + GaussianKernel[4] * at(p, 4)
              + GaussianKernel[5] * at(p, 5)]

\* np.clip
clip(x, lo, hi) == IF x < lo THEN lo ELSE IF x > hi THEN hi ELSE x

\* np.tan(b ** 2) for b in hundredths, in millionths: tan(0.04) = 0.040021,
\* tan(1) = 1.557408.
TanSquare == (0 :> 0) @@ (20 :> 40021) @@ (100 :> 1557408)

BORDER_FLOOR == 5

\* borders = np.tan(border_prediction ** 2); borders[borders < 0.05] = 0;
\* borders = np.clip(borders, 0, 1), in the units of the smoothed map
Borders(border_prediction) ==
    [p \in DOMAIN border_prediction |->
        LET t == TanSquare[border_prediction[p]]
        IN  IF t < BORDER_FLOOR * Unit THEN 0 ELSE clip(t, 0, 100 * Unit)]

\* cell_prediction > th_cell
MaskOfInclusive(cell_prediction, th_cell) ==
    {p \in DOMAIN cell_prediction : cell_prediction[p] >= th_cell * Unit}

MaskOf(cell_prediction, th_cell) ==
    {p \in DOMAIN cell_prediction : cell_prediction[p] > th_cell * Unit}

\* measure.label(cell_prediction_cleaned > th_seed, background=0)
SeedsAbove(cell_prediction_cleaned, th) ==
    label([p \in DOMAIN cell_prediction_cleaned |->
              IF cell_prediction_cleaned[p] > th * Unit THEN 1 ELSE 0])

(***************************************************************************)
(* get_minimum_area_to_remove(connected_components, percentage=0.1): the   *)
(* value computed from the mean area is overridden by the fixed 30 of line *)
(* 157 before it is returned.                                              *)
(***************************************************************************)
MIN_AREA == 30

PERCENTAGE == <<1, 10>>

MIN_AREA_FLOOR == 4

\* percentage * np.mean(areas) and np.maximum(min_area, 4), as fractions
MeanShare(connected_components, percentage) ==
    IF Ids(connected_components) # {}
    THEN <<percentage[1] * Cardinality(Positive(connected_components)),
           percentage[2] * Cardinality(Ids(connected_components))>>
    ELSE <<0, 1>>

Floored(min_area) ==
    IF min_area[1] >= MIN_AREA_FLOOR * min_area[2]
    THEN min_area ELSE <<MIN_AREA_FLOOR, 1>>

get_minimum_area_to_remove(connected_components, percentage) ==
    IF Size(connected_components) = 0
    THEN Raise("ValueError")
    ELSE LET computed == Floored(MeanShare(connected_components, percentage))
             min_area == MIN_AREA
         IN  Return(min_area)

LOOP_MIN_AREA == 4

\* lines 96-100: the regions of area <= 4 are erased, the rest relabelled
DropSmallSeeds(sd) ==
    label([p \in DOMAIN sd |->
              IF sd[p] # 0 /\ Area(sd, sd[p]) <= LOOP_MIN_AREA
              THEN 0 ELSE sd[p]])

TH_SEED_FLOOR == 5
TH_SEED_STEP == 10

\* th_seed -= 0.1
LowerStuck(th) == th

Lower(th) == th - TH_SEED_STEP

(***************************************************************************)
(* skimage.segmentation.watershed(image, markers, mask,                    *)
(* watershed_line=False): the markers are multiplied by the mask, every    *)
(* marked pixel enters a priority queue with age 0, and the pixel of       *)
(* lowest (value, age) is taken out and gives its label to its unlabelled  *)
(* neighbours (connectivity 1) inside the mask, which enter the queue with *)
(* the next age.  Entries of equal value and age leave in raster order.    *)
(***************************************************************************)
Neighbours(p) ==
    << <<p[1] - 1, p[2]>>, <<p[1], p[2] - 1>>,
       <<p[1], p[2] + 1>>, <<p[1] + 1, p[2]>> >>

HeapBefore(a, b) ==
    \/ a.value < b.value
    \/ a.value = b.value /\ a.age < b.age
    \/ a.value = b.value /\ a.age = b.age /\ RasterBefore(a.index, b.index)

RECURSIVE Visit(_, _, _, _, _)
Visit(img, mask, from, nbs, st) ==
    IF nbs = <<>> THEN st
    ELSE LET q == Head(nbs)
         IN  IF q \notin mask \/ st.output[q] # 0
             THEN Visit(img, mask, from, Tail(nbs), st)
             ELSE Visit(img, mask, from, Tail(nbs),
                        [heap |-> st.heap \cup {[value |-> img[q],
                                                 age |-> st.age + 1,
                                                 index |-> q]},
                         output |-> [st.output EXCEPT ![q] = st.output[from]],
                         age |-> st.age + 1])

RECURSIVE Flood(_, _, _)
Flood(img, mask, st) ==
    IF st.heap = {} THEN st.output
    ELSE LET e == CHOOSE a \in st.heap :
                      \A b \in st.heap : a = b \/ HeapBefore(a, b)
         IN  Flood(img, mask,
                   Visit(img, mask, e.index, Neighbours(e.index),
                         [st EXCEPT !.heap = st.heap \ {e}]))

watershed_of_all_markers(img, markers, mask) ==
    Flood(img, mask,
          [heap |-> {[value |-> img[p], age |-> 0, index |-> p] :
                        p \in Positive(markers)},
           output |-> markers, age |-> 0])

watershed(img, markers, mask) ==
    LET masked == [p \in DOMAIN markers |->
                      IF p \in mask THEN markers[p] ELSE 0]
    IN  Flood(img, mask,
              [heap |-> {[value |-> img[p], age |-> 0, index |-> p] :
                            p \in Positive(masked)},
               output |-> masked, age |-> 0])

(***************************************************************************)
(* cv2.Canny(img.astype(np.uint8), 1, 1) > 0 on an array of one row: the   *)
(* 3x3 Sobel derivative along the row with replicated border, so that the  *)
(* derivative across the rows is 0 and the magnitude is                    *)
(* 4 * |img[c + 1] - img[c - 1]|; an edge is a pixel whose magnitude is    *)
(* above the thresholds, greater than the magnitude of its left neighbour  *)
(* and not less than that of its right neighbour (0 outside the array).    *)
(***************************************************************************)
UINT8 == 256

CANNY_THRESHOLD == 1

Magnitude(img, width, r, c) ==
    IF c < 0 \/ c >= width THEN 0
    ELSE Abs(4 * ((img[<<r, clip(c + 1, 0, width - 1)>>] % UINT8)
                    - (img[<<r, clip(c - 1, 0, width - 1)>>] % UINT8)))

Canny(img) ==
    LET width == Width(img)
        m(r, c) == Magnitude(img, width, r, c)
    IN  {p \in DOMAIN img :
            /\ m(p[1], p[2]) > CANNY_THRESHOLD
            /\ m(p[1], p[2]) > m(p[1], p[2] - 1)
            /\ m(p[1], p[2]) >= m(p[1], p[2] + 1)}

\* scipy.ndimage.binary_dilation(mask, np.ones((3, 3)))
binary_dilation(img, mask) ==
    {p \in DOMAIN img : p \in mask \/ \E q \in mask : Adjacent(p, q)}

RECURSIVE Sum(_, _)
Sum(img, S) ==
    IF S = {} THEN 0
    ELSE LET p == CHOOSE q \in S : TRUE IN img[p] + Sum(img, S \ {p})

\* np.sum(border_prediction[pred_border]) / np.sum(pred_border) < 0.075,
\* the border prediction being in hundredths
MergeBorderMean == <<75, 1000>>

LowBorder(border_prediction, pred_border) ==
    MergeBorderMean[2] * Sum(border_prediction, pred_border)
        < MergeBorderMean[1] * 100 * Cardinality(pred_border)

\* lines 113-119, one turn of the loop: the second id is merged into the
\* first
MergeStepIntoSecond(prediction_instance, border_prediction, pred_borders, border_id) ==
    LET pred_border == Equal(pred_borders, border_id)
        pred_border_dilated ==
            binary_dilation(prediction_instance, pred_border)
        merge_ids ==
            get_nucleus_ids({prediction_instance[p] :
                                p \in pred_border_dilated})
    IN  IF /\ LowBorder(border_prediction, pred_border)
           /\ Len(merge_ids) = 2
        THEN Assign(prediction_instance,
                    Equal(prediction_instance, merge_ids[1]), merge_ids[2])
        ELSE prediction_instance

MergeStep(prediction_instance, border_prediction, pred_borders, border_id) ==
    LET pred_border == Equal(pred_borders, border_id)
        pred_border_dilated ==
            binary_dilation(prediction_instance, pred_border)
        merge_ids ==
            get_nucleus_ids({prediction_instance[p] :
                                p \in pred_border_dilated})
    IN  IF /\ LowBorder(border_prediction, pred_border)
           /\ Len(merge_ids) = 2
        THEN Assign(prediction_instance,
                    Equal(prediction_instance, merge_ids[2]), merge_ids[1])
        ELSE prediction_instance

\* lines 112-119
RECURSIVE MergeLoop(_, _, _, _)
MergeLoop(prediction_instance, border_prediction, pred_borders, ids) ==
    IF ids = <<>> THEN prediction_instance
    ELSE MergeLoop(MergeStep(prediction_instance, border_prediction,
                             pred_borders, Head(ids)),
                   border_prediction, pred_borders, Tail(ids))

\* if args.apply_merging and np.max(prediction_instance) < 255, the 255
\* labels being 3 at the scale of the model
MERGE_LIMIT == 3

MergeGuardByCount(prediction_instance, apply_merging) ==
    apply_merging /\ Cardinality(Ids(prediction_instance)) < MERGE_LIMIT

MergeGuard(prediction_instance, apply_merging) ==
    apply_merging /\ Max(Ids(prediction_instance) \cup {0}) < MERGE_LIMIT

\* lines 107-111: the borders between touching cells, labelled
PredBorders(prediction_instance) ==
    LET label_bin == [p \in DOMAIN prediction_instance |->
                         IF prediction_instance[p] > 0 THEN 1 ELSE 0]
        pred_boundaries == Canny(prediction_instance)
        outline == Canny(label_bin)
        xor == (pred_boundaries \ outline) \cup (outline \ pred_boundaries)
    IN  label([p \in DOMAIN prediction_instance |->
                  IF p \in xor THEN 1 ELSE 0])

\* lines 105-120
Merge(prediction_instance, border_prediction, apply_merging) ==
    IF MergeGuard(prediction_instance, apply_merging)
    THEN LET pred_borders == PredBorders(prediction_instance)
         IN  label(MergeLoop(prediction_instance, border_prediction,
                             pred_borders,
                             get_nucleus_ids(Ids(pred_borders))))
    ELSE prediction_instance

\* lines 64-84: the smoothed cell prediction, the clipped border prediction,
\* the border map and the cleaned cell prediction
Smoothed(a) == gaussian_filter(a.cell_prediction)

Clipped(a) ==
    [p \in DOMAIN a.border_prediction |-> clip(a.border_prediction[p], 0, 100)]

Cleaned(a) ==
    LET cell_prediction == Smoothed(a)
        borders == Borders(Clipped(a))
    IN  [p \in DOMAIN a.cell_prediction |-> cell_prediction[p] - borders[p]]

\* line 103
Flooded(a, sd) ==
    LET cell_prediction == Smoothed(a)
    IN  watershed([p \in DOMAIN sd |-> -cell_prediction[p]], sd,
                  MaskOf(cell_prediction, a.th_cell))

\* lines 103-121
Segment(a, sd) ==
    LET flooded == Flooded(a, sd)
        prediction_instance == Merge(flooded, Clipped(a), a.apply_merging)
    IN  [prediction_instance |->
             [p \in DOMAIN sd |-> prediction_instance[p] % UINT16],
         borders |-> Borders(Clipped(a))]

(***************************************************************************)
(* The three passes of the fusion as whole calls: the loop over            *)
(* measure.regionprops(single_channel_image), then the relabelling.        *)
(***************************************************************************)
RECURSIVE AddNucleiLoop(_, _, _, _, _, _)
AddNucleiLoop(img, counter, single_channel_image, mask, props, min_cell_area) ==
    IF props = <<>>
    THEN img
    ELSE LET turn == add_nuclei_step(img, counter, single_channel_image, mask,
                                     Head(props), min_cell_area)
         IN  AddNucleiLoop(turn.image, turn.next_usable_label,
                           single_channel_image, mask, Tail(props),
                           min_cell_area)

add_nuclei_by_overlapping(base_image, single_channel_image, min_cell_area) ==
    label(AddNucleiLoop(base_image, get_maximum_label(base_image) + 1,
                        single_channel_image, Positive(base_image),
                        regionprops(single_channel_image), min_cell_area))

RECURSIVE AddObjectsLoop(_, _, _, _, _, _, _)
AddObjectsLoop(img, counter, single_channel_image, mask, props, cells_overlap, min_cell_area) ==
    IF props = <<>>
    THEN img
    ELSE LET turn == add_objects_step(img, counter, single_channel_image, mask,
                                      Head(props), cells_overlap, min_cell_area)
         IN  AddObjectsLoop(turn.image, turn.next_usable_label,
                            single_channel_image, mask, Tail(props),
                            cells_overlap, min_cell_area)

add_objects_by_overlapping(base_image, single_channel_image, cells_overlap, min_cell_area) ==
    label(AddObjectsLoop(base_image, get_maximum_label(base_image) + 1,
                         single_channel_image, Positive(base_image),
                         regionprops(single_channel_image), cells_overlap,
                         min_cell_area))

(***************************************************************************)
(* simple_binary_mask_post_processing(mask, original_image, args,          *)
(* denoise=True, areas_to_remove): mask is a prediction of sigmoid values, *)
(* in hundredths, one array per channel; the binary channel is thresholded,*)
(* labelled and cleaned of its small regions.  original_image and args are *)
(* not read.                                                               *)
(***************************************************************************)
BINARY_CH == 1
THRESHOLD == 20

Thresholded(mask) ==
    [p \in Pixel |-> IF mask[BINARY_CH][p] > THRESHOLD THEN 1 ELSE 0]

simple_binary_mask_post_processing(mask, areas_to_remove) ==
    LET processed_mask == Thresholded(mask)
        prediction_instance ==
            remove_smaller_areas(label(processed_mask), areas_to_remove).val
    IN  [p \in Pixel |-> prediction_instance[p] % UINT16]

(***************************************************************************)
(* The defaults of the fusion, at the scale of the model: 30 pixels of     *)
(* noise (areas_to_remove) are 1 pixel, the 1000 pixels of a cell          *)
(* (areas_to_remove of the nuclei, max_cell_area, min_cell_area) are 3.    *)
(* cells_overlap is 100 for the nuclei and 1.00 for the objects.           *)
(***************************************************************************)
AREAS_TO_REMOVE == 1
NUCLEI_AREAS_TO_REMOVE == 3
MAX_CELL_AREA == 3
MIN_CELL_AREA == 3
CELLS_OVERLAP == <<1, 1>>

\* x.astype(np.uint16) of a label image
astype_uint16(img) == [p \in DOMAIN img |-> img[p] % UINT16]

(***************************************************************************)
(* Arrays are passed by reference.  A pass writes through a local name,    *)
(* image or refined_image, bound to the array that copy.deepcopy(...) or   *)
(* .copy() returns: a new array, named here after the local name.  Were    *)
(* the name bound to the caller's array itself, every write would show in  *)
(* the caller's base image.                                                *)
(***************************************************************************)
Alias(array) == array

deepcopy(array) == "image"

copy(array) == "refined_image"

\* the arguments of the call once img has been written to the array
Written(a, array, img) ==
    IF array = "base_image" THEN [a EXCEPT !.base_image = img] ELSE a

(***************************************************************************)
(* Calls of the array functions: the arguments are drawn at the start, the *)
(* call returns in one step.                                               *)
(***************************************************************************)
NoFusion ==
    /\ image = Zeros
    /\ next_usable_label = 0
    /\ todo = <<>>
    /\ last = [kind |-> Idle]

NoWatershed ==
    /\ th_seed = 0
    /\ seeds = Zeros

\* an array of zero elements
Empty == [p \in {} |-> 0]

InitAreas ==
    /\ pc = "call"
    /\ callee = "remove_smaller_areas"
    /\ args \in [seeds : Paintings \cup {Empty},
                 area_threshold : -1 .. MaxThreshold]
    /\ ret = None
    /\ NoFusion
    /\ NoWatershed

CallRemoveSmallerAreas ==
    /\ pc = "call"
    /\ callee = "remove_smaller_areas"
    /\ ret' = remove_smaller_areas(args.seeds, args.area_threshold)
    /\ pc' = "done"
    /\ UNCHANGED <<callee, args, image, next_usable_label, todo, last,
                   th_seed, seeds>>

NextAreas == CallRemoveSmallerAreas

SpecAreas == InitAreas /\ [][NextAreas]_vars

(***************************************************************************)
(* get_minimum_area_to_remove called on a painting or on an array of zero  *)
(* elements, with a percentage of 10%, 50% or 100%.                        *)
(***************************************************************************)
Percentages == {PERCENTAGE, <<1, 2>>, <<1, 1>>}

InitMinArea ==
    /\ pc = "call"
    /\ callee = "get_minimum_area_to_remove"
    /\ args \in [connected_components : Paintings \cup {Empty},
                 percentage : Percentages]
    /\ ret = None
    /\ NoFusion
    /\ NoWatershed

CallMinArea ==
    /\ pc = "call"
    /\ callee = "get_minimum_area_to_remove"
    /\ ret' = get_minimum_area_to_remove(args.connected_components,
                                         args.percentage)
    /\ pc' = "done"
    /\ UNCHANGED <<callee, args, image, next_usable_label, todo, last,
                   th_seed, seeds>>

NextMinArea == CallMinArea

SpecMinArea == InitMinArea /\ [][NextMinArea]_vars

(***************************************************************************)
(* filter_regions_by_size called on a painting.                            *)
(***************************************************************************)
InitFilter ==
    /\ pc = "call"
    /\ callee = "filter_regions_by_size"
    /\ args \in [mask : Paintings, min_dim : 0 .. MaxThreshold - 1,
                 max_dim : 0 .. MaxThreshold + 1]
    /\ ret = None
    /\ NoFusion
    /\ NoWatershed

CallFilter ==
    /\ pc = "call"
    /\ callee = "filter_regions_by_size"
    /\ ret' = filter_regions_by_size(args.mask, args.min_dim, args.max_dim)
    /\ pc' = "done"
    /\ UNCHANGED <<callee, args, image, next_usable_label, todo, last,
                   th_seed, seeds>>

NextFilter == CallFilter

SpecFilter == InitFilter /\ [][NextFilter]_vars

(***************************************************************************)
(* refine_objects_by_overlapping called on a painting and a one-rectangle  *)
(* refiner.                                                                *)
(***************************************************************************)
OneObject == {Assign(Zeros, a, 1) : a \in Rectangles \cup {{}}}

InitRefine ==
    /\ pc = "call"
    /\ callee = "refine_objects_by_overlapping"
    /\ args \in [base_image : Paintings, refiner_image : OneObject,
                 max_cell_area : 1 .. MaxThreshold]
    /\ ret = None
    /\ NoFusion
    /\ NoWatershed

CallRefine ==
    /\ pc = "call"
    /\ callee = "refine_objects_by_overlapping"
    /\ ret' = Return(refine_objects_by_overlapping(
                        args.base_image, args.refiner_image, args.max_cell_area))
    /\ args' = Written(args, copy("base_image"),
                       refine_objects_by_overlapping(
                           args.base_image, args.refiner_image,
                           args.max_cell_area))
    /\ pc' = "done"
    /\ UNCHANGED <<callee, image, next_usable_label, todo, last,
                   th_seed, seeds>>

NextRefine == CallRefine

SpecRefine == InitRefine /\ [][NextRefine]_vars

(***************************************************************************)
(* get_overlapping_components called on a painting, a rectangular boolean  *)
(* marker and a maximum ratio of 1/2 or 1.                                 *)
(***************************************************************************)
Ratios == {<<1, 2>>, <<1, 1>>}

InitOverlap ==
    /\ pc = "call"
    /\ callee = "get_overlapping_components"
    /\ args \in [original_image : Paintings,
                 marker : {BoolMarker(m) : m \in Rectangles \cup {{}}},
                 maximum_cells_overlap : Ratios]
    /\ ret = None
    /\ NoFusion
    /\ NoWatershed

CallOverlap ==
    /\ pc = "call"
    /\ callee = "get_overlapping_components"
    /\ ret' = get_overlapping_components(
                  args.original_image, args.marker, args.maximum_cells_overlap)
    /\ pc' = "done"
    /\ UNCHANGED <<callee, args, image, next_usable_label, todo, last,
                   th_seed, seeds>>

NextOverlap == CallOverlap

SpecOverlap == InitOverlap /\ [][NextOverlap]_vars

(***************************************************************************)
(* Either overlap query called on a painting and a rectangular marker, of  *)
(* boolean type or, for a few markers, of integer type.                    *)
(***************************************************************************)
IntMarker(m) == [dtype |-> "int64", mask |-> m]

Markers ==
    {BoolMarker(m) : m \in Rectangles \cup {{}}}
        \cup {IntMarker(m) : m \in {{}, Window}}

InitQuery ==
    /\ pc = "call"
    /\ callee \in {"get_overlapping_components",
                   "get_nuclei_connected_components"}
    /\ \E o \in Paintings, k \in Markers :
         \/ /\ callee = "get_overlapping_components"
            /\ \E r \in Ratios :
                 args = [original_image |-> o, marker |-> k,
                         maximum_cells_overlap |-> r]
         \/ /\ callee = "get_nuclei_connected_components"
            /\ \E d \in 0 .. MaxThreshold :
                 args = [original_image |-> o, marker |-> k,
                         minimum_component_dim |-> d]
    /\ ret = None
    /\ NoFusion
    /\ NoWatershed

CallNucleiQuery ==
    /\ pc = "call"
    /\ callee = "get_nuclei_connected_components"
    /\ ret' = get_nuclei_connected_components(
                  args.original_image, args.marker, args.minimum_component_dim)
    /\ pc' = "done"
    /\ UNCHANGED <<callee, args, image, next_usable_label, todo, last,
                   th_seed, seeds>>

NextQuery ==
    \/ CallOverlap
    \/ CallNucleiQuery

SpecQuery == InitQuery /\ [][NextQuery]_vars

(***************************************************************************)
(* foi_correction called on a painting, for one cell type of each margin.  *)
(* The mask argument is changed in place; `last' keeps what it was.        *)
(***************************************************************************)
CellTypes == {"DIC-C2DH-HeLa", "BF-C2DL-HSC", "Fluo-N2DH-SIM+"}

InitFoi ==
    /\ pc = "call"
    /\ callee = "foi_correction"
    /\ args \in [mask : Paintings, cell_type : CellTypes]
    /\ ret = None
    /\ NoFusion
    /\ NoWatershed

CallFoi ==
    /\ pc = "call"
    /\ callee = "foi_correction"
    /\ LET r == foi_correction(args.mask, args.cell_type)
       IN  /\ args' = [args EXCEPT !.mask = r.mask]
           /\ ret' = Return([ref |-> r.returned])
    /\ last' = [kind |-> "foi", before |-> args.mask]
    /\ pc' = "done"
    /\ UNCHANGED <<callee, image, next_usable_label, todo, th_seed, seeds>>

NextFoi == CallFoi

SpecFoi == InitFoi /\ [][NextFoi]_vars

(***************************************************************************)
(* The two adding passes of the fusion, add_nuclei_by_overlapping and      *)
(* add_objects_by_overlapping, one action per turn of their loop.          *)
(*                                                                         *)
(* The base image and the second image are label images as                 *)
(* simple_binary_mask_post_processing returns them: the labelling of a     *)
(* binary mask, here the union of some blobs of a catalogue.               *)
(***************************************************************************)
Blob(r1, r2, c1, c2) ==
    {p \in Pixel : r1 <= p[1] /\ p[1] <= r2 /\ c1 <= p[2] /\ p[2] <= c2}

BaseBlobs == {Blob(0, 0, 1, 1), Blob(2, 2, 0, 3), Blob(0, 0, 3, 4)}

SecondBlobs == {Blob(0, 2, 1, 1), Blob(2, 2, 3, 3), Blob(2, 2, 5, 5),
                Blob(0, 0, 3, 3)}

LabelOf(blobs) == label(Assign(Zeros, UNION blobs, 1))

NucleiOverlap == <<100, 1>>

InitFusion ==
    /\ pc = "call"
    /\ callee \in {"add_nuclei_by_overlapping", "add_objects_by_overlapping"}
    /\ \E b \in SUBSET BaseBlobs, o \in SUBSET SecondBlobs,
          a \in 1 .. MaxThreshold,
          r \in IF callee = "add_nuclei_by_overlapping"
                THEN {NucleiOverlap} ELSE Ratios :
            args = [base_image |-> LabelOf(b),
                    single_channel_image |-> LabelOf(o),
                    cells_overlap |-> r,
                    min_cell_area |-> a]
    /\ ret = None
    /\ NoFusion
    /\ NoWatershed

\* image = copy.deepcopy(base_image) ... regionprops(single_channel_image)
EnterFusion ==
    /\ pc = "call"
    /\ callee \in {"add_nuclei_by_overlapping", "add_objects_by_overlapping"}
    /\ image' = args.base_image
    /\ next_usable_label' = get_maximum_label(args.base_image) + 1
    /\ todo' = regionprops(args.single_channel_image)
    /\ last' = [kind |-> "enter", region |-> {}, before |-> args.base_image,
                counter |-> 0, written |-> 0, host |-> {}]
    /\ pc' = "loop"
    /\ UNCHANGED <<callee, args, ret, th_seed, seeds>>

NucleiTurn ==
    add_nuclei_step(image, next_usable_label, args.single_channel_image,
                    Positive(args.base_image), Head(todo), args.min_cell_area)

ObjectsTurn ==
    add_objects_step(image, next_usable_label, args.single_channel_image,
                     Positive(args.base_image), Head(todo),
                     args.cells_overlap, args.min_cell_area)

Take(turn) ==
    /\ image' = turn.image
    /\ args' = Written(args, deepcopy("base_image"), turn.image)
    /\ next_usable_label' = turn.next_usable_label
    /\ todo' = Tail(todo)
    /\ last' = [kind |-> turn.kind,
                region |-> Equal(args.single_channel_image, Head(todo)),
                before |-> image, counter |-> next_usable_label,
                written |-> turn.written, host |-> turn.host]
    /\ UNCHANGED <<pc, callee, ret, th_seed, seeds>>

InNuclei == pc = "loop" /\ callee = "add_nuclei_by_overlapping" /\ todo # <<>>
InObjects == pc = "loop" /\ callee = "add_objects_by_overlapping" /\ todo # <<>>

NucleiNew == InNuclei /\ NucleiTurn.kind = "new" /\ Take(NucleiTurn)
NucleiUnion == InNuclei /\ NucleiTurn.kind = "union" /\ Take(NucleiTurn)
NucleiNoHost == InNuclei /\ NucleiTurn.kind = "no_host" /\ Take(NucleiTurn)

ObjectsNew == InObjects /\ ObjectsTurn.kind = "new" /\ Take(ObjectsTurn)
ObjectsNoHost == InObjects /\ ObjectsTurn.kind = "no_host" /\ Take(ObjectsTurn)
ObjectsCarve == InObjects /\ ObjectsTurn.kind = "carve" /\ Take(ObjectsTurn)
ObjectsDiscard == InObjects /\ ObjectsTurn.kind = "discard" /\ Take(ObjectsTurn)

\* image = measure.label(image, background=0); return image
ReturnFusion ==
    /\ pc = "loop"
    /\ callee \in {"add_nuclei_by_overlapping", "add_objects_by_overlapping"}
    /\ todo = <<>>
    /\ image' = label(image)
    /\ ret' = Return(label(image))
    /\ last' = [last EXCEPT !.kind = "relabel"]
    /\ pc' = "done"
    /\ UNCHANGED <<callee, args, next_usable_label, todo, th_seed, seeds>>

NextFusion ==
    \/ EnterFusion
    \/ NucleiNew
    \/ NucleiUnion
    \/ NucleiNoHost
    \/ ObjectsNew
    \/ ObjectsNoHost
    \/ ObjectsCarve
    \/ ObjectsDiscard
    \/ ReturnFusion

SpecFusion == InitFusion /\ [][NextFusion]_vars

(***************************************************************************)
(* add_objects_by_overlapping alone, on images whose objects lie in the    *)
(* first column: the last column is then outside the 9x9 dilation of every *)
(* object.                                                                 *)
(***************************************************************************)
FarBaseBlobs == {Blob(2, 2, 0, 3), Blob(0, 0, 0, 1), Blob(0, 1, 5, 5)}

NearObjectBlobs == {Blob(2, 2, 0, 0), Blob(0, 0, 0, 0)}

InitObjects ==
    /\ pc = "call"
    /\ callee = "add_objects_by_overlapping"
    /\ \E b \in SUBSET FarBaseBlobs, o \in SUBSET NearObjectBlobs,
          a \in 1 .. MaxThreshold, r \in Ratios :
            args = [base_image |-> LabelOf(b),
                    single_channel_image |-> LabelOf(o),
                    cells_overlap |-> r,
                    min_cell_area |-> a]
    /\ ret = None
    /\ NoFusion
    /\ NoWatershed

NextObjects ==
    \/ EnterFusion
    \/ ObjectsNew
    \/ ObjectsNoHost
    \/ ObjectsCarve
    \/ ObjectsDiscard
    \/ ReturnFusion

SpecObjects == InitObjects /\ [][NextObjects]_vars

(***************************************************************************)
(* add_nuclei_by_overlapping alone, on a base image of one cell and one    *)
(* small object, and nuclei next to them.                                  *)
(***************************************************************************)
CellBlobs == {Blob(0, 0, 2, 4), Blob(2, 2, 4, 5)}

NucleusBlobs == {Blob(0, 0, 0, 0), Blob(0, 1, 3, 3), Blob(1, 2, 5, 5)}

InitNuclei ==
    /\ pc = "call"
    /\ callee = "add_nuclei_by_overlapping"
    /\ \E b \in SUBSET CellBlobs, o \in SUBSET NucleusBlobs,
          a \in 1 .. MaxThreshold :
            args = [base_image |-> LabelOf(b),
                    single_channel_image |-> LabelOf(o),
                    cells_overlap |-> NucleiOverlap,
                    min_cell_area |-> a]
    /\ ret = None
    /\ NoFusion
    /\ NoWatershed

NextNuclei ==
    \/ EnterFusion
    \/ NucleiNew
    \/ NucleiUnion
    \/ NucleiNoHost
    \/ ReturnFusion

SpecNuclei == InitNuclei /\ [][NextNuclei]_vars

(***************************************************************************)
(* The three passes of the fusion side by side: a call of                  *)
(* refine_objects_by_overlapping, or a run of one of the adding passes.    *)
(***************************************************************************)
InitPasses == InitRefine \/ InitFusion

NextPasses ==
    \/ NextRefine
    \/ NextFusion

SpecPasses == InitPasses /\ [][NextPasses]_vars

(***************************************************************************)
(* fusion_post_processing(prediction_dict, sc_prediction_dict,             *)
(* nuclei_prediction_dict, args, just_evs), one action per statement.      *)
(*                                                                         *)
(* A prediction has two channels of sigmoid values: the binary channel is  *)
(* high on some blobs of a catalogue and at the threshold elsewhere, the   *)
(* other channel is its complement.  The local variables of the call are   *)
(* the fields of last; bound is the set of the names assigned so far.      *)
(***************************************************************************)
Sigmoid(blobs) ==
    [ch \in {0, 1} |->
        [p \in Pixel |-> IF (p \in UNION blobs) = (ch = BINARY_CH)
                         THEN 90 ELSE THRESHOLD]]

PrimaryBlobs == {Blob(0, 0, 0, 0), Blob(2, 2, 0, 3), Blob(0, 0, 2, 3),
                 Blob(0, 1, 5, 5)}

SingleChannelBlobs == {Blob(0, 1, 3, 3), Blob(1, 2, 1, 1), Blob(2, 2, 5, 5)}

NucleiBlobs == {Blob(1, 2, 2, 3), Blob(0, 1, 4, 5)}

InitEntry ==
    /\ pc = "call"
    /\ callee = "fusion_post_processing"
    /\ \E b \in SUBSET PrimaryBlobs, o \in SUBSET SingleChannelBlobs,
          n \in SUBSET NucleiBlobs, e \in BOOLEAN :
            args = [mask |-> Sigmoid(b), sc_mask |-> Sigmoid(o),
                    nuclei_mask |-> Sigmoid(n), just_evs |-> e]
    /\ ret = None
    /\ image = Zeros
    /\ next_usable_label = 0
    /\ todo = <<>>
    /\ last = [bound |-> {}, prediction_instance |-> Zeros,
               sc_prediction_instance |-> Zeros,
               nuclei_prediction_instance |-> Zeros,
               processed_prediction |-> Zeros,
               refined_evs_prediction |-> Zeros]
    /\ NoWatershed

Bind(name, value) ==
    /\ last' = [last EXCEPT ![name] = value, !.bound = @ \cup {name}]
    /\ UNCHANGED <<callee, args, ret, image, next_usable_label, todo,
                   th_seed, seeds>>

\* prediction_instance = simple_binary_mask_post_processing(mask, ...)
EntryPrimary ==
    /\ pc = "call"
    /\ callee = "fusion_post_processing"
    /\ Bind("prediction_instance",
            simple_binary_mask_post_processing(args.mask, AREAS_TO_REMOVE))
    /\ pc' = IF args.just_evs THEN "just_evs" ELSE "return"

\* sc_prediction_instance = ...
EntrySingleChannel ==
    /\ pc = "just_evs"
    /\ Bind("sc_prediction_instance",
            simple_binary_mask_post_processing(args.sc_mask, AREAS_TO_REMOVE))
    /\ pc' = "nuclei"

\* nuclei_prediction_instance = ...(..., areas_to_remove = 1000)
EntryNuclei ==
    /\ pc = "nuclei"
    /\ Bind("nuclei_prediction_instance",
            simple_binary_mask_post_processing(args.nuclei_mask,
                                               NUCLEI_AREAS_TO_REMOVE))
    /\ pc' = "add_nuclei"

NucleiAdded(frame) ==
    add_nuclei_by_overlapping(frame.prediction_instance,
                              frame.nuclei_prediction_instance, MIN_CELL_AREA)

Refined(frame) ==
    refine_objects_by_overlapping(frame.prediction_instance,
                                  frame.sc_prediction_instance, MAX_CELL_AREA)

ObjectsAddedToUnrefined(frame) ==
    add_objects_by_overlapping(frame.prediction_instance,
                               frame.sc_prediction_instance, CELLS_OVERLAP,
                               MIN_CELL_AREA)

ObjectsAdded(frame) ==
    add_objects_by_overlapping(frame.processed_prediction,
                               frame.sc_prediction_instance, CELLS_OVERLAP,
                               MIN_CELL_AREA)

\* prediction_instance = add_nuclei_by_overlapping(prediction_instance, ...)
EntryAddNuclei ==
    /\ pc = "add_nuclei"
    /\ Bind("prediction_instance", NucleiAdded(last))
    /\ pc' = "refine"

\* processed_prediction = refine_objects_by_overlapping(prediction_instance, ...)
EntryRefine ==
    /\ pc = "refine"
    /\ Bind("processed_prediction", Refined(last))
    /\ pc' = "add_objects"

\* refined_evs_prediction = add_objects_by_overlapping(processed_prediction, ...)
EntryAddObjects ==
    /\ pc = "add_objects"
    /\ Bind("refined_evs_prediction", ObjectsAdded(last))
    /\ pc' = "return"

\* return refined_evs_prediction.astype(np.uint16), ...astype(np.uint16)
EntryReturn ==
    /\ pc = "return"
    /\ "refined_evs_prediction" \in last.bound
    /\ ret' = Return(<<astype_uint16(last.refined_evs_prediction),
                       astype_uint16(last.refined_evs_prediction)>>)
    /\ pc' = "done"
    /\ UNCHANGED <<callee, args, image, next_usable_label, todo, last,
                   th_seed, seeds>>

\* the same statement when the name was never assigned
EntryRaise ==
    /\ pc = "return"
    /\ "refined_evs_prediction" \notin last.bound
    /\ ret' = Raise("UnboundLocalError")
    /\ pc' = "done"
    /\ UNCHANGED <<callee, args, image, next_usable_label, todo, last,
                   th_seed, seeds>>

NextEntry ==
    \/ EntryPrimary
    \/ EntrySingleChannel
    \/ EntryNuclei
    \/ EntryAddNuclei
    \/ EntryRefine
    \/ EntryAddObjects
    \/ EntryReturn
    \/ EntryRaise

SpecEntry == InitEntry /\ [][NextEntry]_vars

(***************************************************************************)
(* border_cell_post_processing, one action per turn of the seed loop.      *)
(*                                                                         *)
(* A cell prediction is the background with up to two plateaus, a border   *)
(* prediction the background with at most two; the thresholds are such     *)
(* that the repeated th_seed -= 0.1 in floating point takes the loop       *)
(* through as many turns as the exact subtraction does.                    *)
(***************************************************************************)
Plateau(c1, c2, v) == [from |-> c1, to |-> c2, level |-> v]

Flat == Plateau(0, -1, 0)

Paint(a, b) ==
    [p \in WsPixel |->
        IF a.from <= p[2] /\ p[2] <= a.to THEN a.level
        ELSE IF b.from <= p[2] /\ p[2] <= b.to THEN b.level
        ELSE 0]

FirstPlateaus ==
    {Flat, Plateau(7, 12, 100)}
        \cup {Plateau(0, c, v) : c \in {0, 4, 30}, v \in {6, 100}}

SecondPlateaus == {Flat, Plateau(7, 12, 100), Plateau(33, 38, 100)}

BorderPlateaus ==
    {Flat, Plateau(5, 6, 20), Plateau(5, 6, 100), Plateau(31, 32, 150)}

SecondBorderPlateaus == {Flat, Plateau(20, 21, 100)}

ThSeeds == {5, 8, 45}

ThCells == {0, 7}

InitWatershed ==
    /\ pc = "call"
    /\ callee = "border_cell_post_processing"
    /\ \E a \in FirstPlateaus, b \in SecondPlateaus, n \in BorderPlateaus,
          n2 \in SecondBorderPlateaus,
          s \in ThSeeds, c \in ThCells, m \in BOOLEAN :
            args = [border_prediction |-> Paint(n, n2),
                    cell_prediction |-> Paint(a, b),
                    th_seed |-> s, th_cell |-> c, apply_merging |-> m]
    /\ ret = None
    /\ image = Zeros
    /\ next_usable_label = 0
    /\ todo = <<>>
    /\ last = [kind |-> "call", iterations |-> 0]
    /\ NoWatershed

\* lines 85-89: the first seeds, or the error of a callee
FirstSeeds(a) ==
    LET first == SeedsAbove(Cleaned(a), a.th_seed)
        min_area == get_minimum_area_to_remove(first, PERCENTAGE)
    IN  IF min_area.err # None
        THEN min_area
        ELSE remove_smaller_areas(first, min_area.val)

\* lines 64-89
EnterWatershed ==
    /\ pc = "call"
    /\ callee = "border_cell_post_processing"
    /\ th_seed' = args.th_seed
    /\ IF FirstSeeds(args).err # None
       THEN /\ ret' = FirstSeeds(args)
            /\ pc' = "done"
            /\ UNCHANGED <<seeds, last>>
       ELSE /\ seeds' = FirstSeeds(args).val
            /\ last' = [kind |-> "seeds", iterations |-> 0]
            /\ pc' = "loop"
            /\ UNCHANGED ret
    /\ UNCHANGED <<callee, args, image, next_usable_label, todo>>

\* while np.max(seeds) == 0 and th_seed > 0.05
Searching ==
    /\ pc = "loop"
    /\ callee = "border_cell_post_processing"
    /\ Max(Ids(seeds) \cup {0}) = 0
    /\ th_seed > TH_SEED_FLOOR

\* lines 93-100
RecoverSeeds ==
    /\ Searching
    /\ th_seed' = Lower(th_seed)
    /\ seeds' = DropSmallSeeds(SeedsAbove(Cleaned(args), Lower(th_seed)))
    /\ last' = [kind |-> "seeds", iterations |-> last.iterations + 1]
    /\ UNCHANGED <<pc, callee, args, ret, image, next_usable_label, todo>>

\* line 103 and the test of line 105
MergeRuns == MergeGuard(Flooded(args, seeds), args.apply_merging)

\* lines 103-105 and 121: the watershed, returned as it is
ReturnWatershed ==
    /\ pc = "loop"
    /\ callee = "border_cell_post_processing"
    /\ ~Searching
    /\ ~MergeRuns
    /\ ret' = Return(Segment(args, seeds))
    /\ last' = [kind |-> "no_merge", iterations |-> last.iterations]
    /\ pc' = "done"
    /\ UNCHANGED <<callee, args, image, next_usable_label, todo,
                   th_seed, seeds>>

\* lines 103-111: the watershed and the borders between touching cells
EnterMerge ==
    /\ pc = "loop"
    /\ callee = "border_cell_post_processing"
    /\ ~Searching
    /\ MergeRuns
    /\ image' = Flooded(args, seeds)
    /\ todo' = get_nucleus_ids(Ids(PredBorders(Flooded(args, seeds))))
    /\ last' = [kind |-> "borders", iterations |-> last.iterations,
                pred_borders |-> PredBorders(Flooded(args, seeds)),
                pred_border |-> {}, before |-> Flooded(args, seeds)]
    /\ pc' = "merge"
    /\ UNCHANGED <<callee, args, ret, next_usable_label, th_seed, seeds>>

MergeTurn ==
    MergeStep(image, Clipped(args), last.pred_borders, Head(todo))

InMerge ==
    /\ pc = "merge"
    /\ callee = "border_cell_post_processing"
    /\ todo # <<>>

TakeMerge(kind) ==
    /\ image' = MergeTurn
    /\ todo' = Tail(todo)
    /\ last' = [last EXCEPT !.kind = kind,
                            !.pred_border = Equal(last.pred_borders, Head(todo)),
                            !.before = image]
    /\ UNCHANGED <<pc, callee, args, ret, next_usable_label, th_seed, seeds>>

\* lines 113-119, a turn that merges two cells
MergeTwo == InMerge /\ MergeTurn # image /\ TakeMerge("merged")

\* lines 113-119, a turn that leaves the cells as they are
MergeNone == InMerge /\ MergeTurn = image /\ TakeMerge("kept")

\* lines 120-121: the relabelling, and the return
ReturnMerged ==
    /\ pc = "merge"
    /\ callee = "border_cell_post_processing"
    /\ todo = <<>>
    /\ image' = label(image)
    /\ ret' = Return([prediction_instance |-> astype_uint16(label(image)),
                      borders |-> Borders(Clipped(args))])
    /\ last' = [last EXCEPT !.kind = "merge"]
    /\ pc' = "done"
    /\ UNCHANGED <<callee, args, next_usable_label, todo, th_seed, seeds>>

NextWatershed ==
    \/ EnterWatershed
    \/ RecoverSeeds
    \/ ReturnWatershed
    \/ EnterMerge
    \/ MergeTwo
    \/ MergeNone
    \/ ReturnMerged

SpecWatershed == InitWatershed /\ [][NextWatershed]_vars

(***************************************************************************)
(* C1.  Area filtering law: every connected region of                      *)
(* remove_smaller_areas(img, T), T >= 0, has more than T pixels, whatever  *)
(* the label values of img are.                                            *)
(***************************************************************************)
C1_AreaFilteringLaw ==
    (pc = "done" /\ callee = "remove_smaller_areas" /\ ret.err = None)
        => \A C \in Components(ret.val) : Cardinality(C) > args.area_threshold

(***************************************************************************)
(* C4.  Refine-by-overlap: a region of the base image of area at least     *)
(* max_cell_area is unchanged; a smaller region keeps its id on exactly    *)
(* its pixels inside (refiner > 0) and is 0 elsewhere (all of it, when it  *)
(* does not meet the refiner); no background pixel becomes non-zero.       *)
(***************************************************************************)
C4_RefineByOverlap ==
    (pc = "done" /\ callee = "refine_objects_by_overlapping")
        => LET base == args.base_image
               out == ret.val
               refiner == {p \in Pixel : args.refiner_image[p] > 0}
           IN  /\ \A v \in Ids(base) :
                    LET r == {p \in Pixel : base[p] = v}
                    IN  IF Cardinality(r) >= args.max_cell_area
                        THEN \A p \in r : out[p] = v
                        ELSE IF r \cap refiner # {}
                        THEN /\ \A p \in r \cap refiner : out[p] = v
                             /\ \A p \in r \ refiner : out[p] = 0
                        ELSE \A p \in r : out[p] = 0
               /\ \A p \in Pixel : base[p] = 0 => out[p] = 0

\* a small region is shrunk to its overlap while a large one is kept whole
C4_Witness ==
    /\ pc = "done"
    /\ callee = "refine_objects_by_overlapping"
    /\ \E v, w \in Ids(args.base_image) :
        /\ Area(args.base_image, v) < args.max_cell_area
        /\ Equal(args.base_image, v) \cap Positive(args.refiner_image) # {}
        /\ Equal(args.base_image, v) \ Positive(args.refiner_image) # {}
        /\ Equal(ret.val, v) # {}
        /\ Equal(ret.val, v) # Equal(args.base_image, v)
        /\ Area(args.base_image, w) = args.max_cell_area
        /\ Equal(args.base_image, w) \ Positive(args.refiner_image) # {}
        /\ Equal(ret.val, w) = Equal(args.base_image, w)

(***************************************************************************)
(* C5.  Overlap query ordering: get_overlapping_components returns the     *)
(* lowest label of the relabelled image whose component overlaps the query *)
(* with 0 < ratio <= maximum and has at least the minimum area, also when  *)
(* a higher label overlaps the query more; it returns (None, None, None)   *)
(* exactly when no label qualifies.                                        *)
(***************************************************************************)
C5_Qualifying ==
    LET labels == label(args.original_image)
        marker == args.marker.mask
    IN  {l \in Ids(labels) :
            LET inter == Cardinality({p \in marker : labels[p] = l})
            IN  /\ 0 < inter
                /\ inter * args.maximum_cells_overlap[2]
                      <= args.maximum_cells_overlap[1] * Cardinality(marker)
                /\ Cardinality({p \in Pixel : labels[p] = l})
                      >= MIN_COMPONENT_AREA}

C9_Inside ==
    LET E == FoiMargin(args.cell_type)
    IN  {p \in Pixel : /\ E <= p[1] /\ p[1] < (MaxRow + 1) - E
                       /\ E <= p[2] /\ p[2] < (MaxCol + 1) - E}

C9_FoiCorrection ==
    (pc = "done" /\ callee = "foi_correction")
        => /\ ret.val.ref = "mask"
           /\ \A p \in Pixel :
                LET v == last.before[p]
                IN  args.mask[p] =
                        IF v # 0 /\ \E q \in C9_Inside : last.before[q] = v
                        THEN v ELSE 0

\* one region with pixels in the margin survives whole, another is erased
C9_Witness ==
    /\ pc = "done"
    /\ callee = "foi_correction"
    /\ FoiMargin(args.cell_type) > 0
    /\ \E v, w \in Ids(last.before) :
        /\ Equal(last.before, v) \cap C9_Inside # {}
        /\ Equal(last.before, v) \ C9_Inside # {}
        /\ Equal(args.mask, v) = Equal(last.before, v)
        /\ Equal(last.before, w) \cap C9_Inside = {}
        /\ Equal(args.mask, w) = {}

(***************************************************************************)
(* C2.  Object-add carve: right after add_objects_by_overlapping has found *)
(* a qualifying host for an object, every pixel within the 9x9 dilation of *)
(* the object and outside the object is 0 in the working image, and the    *)
(* pixels of the object carry a label that is new and that no other pixel  *)
(* carries.                                                                *)
(***************************************************************************)
C2_Footprint ==
    {p \in Pixel : \E q \in last.region :
        Abs(p[1] - q[1]) <= 4 /\ Abs(p[2] - q[2]) <= 4}

C3_HostId == last.before[FirstPixel(last.host)]

C3_NucleiAddUnion ==
    (callee = "add_nuclei_by_overlapping" /\ last.kind = "union")
        => /\ \A p \in last.host \cup last.region : image[p] = C3_HostId
           /\ \A p \in Pixel \ (last.host \cup last.region) :
                image[p] # last.written

(***************************************************************************)
(* C10.  Label-counter freshness: in both adding passes next_usable_label  *)
(* starts at max(base) + 1 and only increases, and the label written for a *)
(* newly introduced region is carried by no pixel of the working image at  *)
(* that moment.                                                            *)
(***************************************************************************)
C10_LabelCounterFreshness ==
    (callee \in {"add_nuclei_by_overlapping", "add_objects_by_overlapping"}
     /\ pc = "loop")
        => /\ last.kind = "enter"
                => next_usable_label = get_maximum_label(args.base_image) + 1
           /\ last.kind # "enter" => next_usable_label >= last.counter
           /\ last.kind \in {"new", "carve"}
                => /\ last.written = last.counter
                   /\ next_usable_label > last.counter
                   /\ last.written \notin Ids(last.before)

(***************************************************************************)
(* C6.  Seed recovery yields an instance: when the cell prediction has a   *)
(* pixel above 0.05, border_cell_post_processing returns a label image     *)
(* with at least one non-background pixel, whatever the border prediction  *)
(* and the thresholds of the call are.                                     *)
(***************************************************************************)
C6_SeedRecoveryYieldsInstance ==
    (/\ pc = "done"
     /\ callee = "border_cell_post_processing"
     /\ \E p \in WsPixel : args.cell_prediction[p] > TH_SEED_FLOOR)
        => /\ ret.err = None
           /\ \E p \in WsPixel : ret.val.prediction_instance[p] # 0

(***************************************************************************)
(* C7.  Empty input degrades, it does not fail: in a call of               *)
(* border_cell_post_processing on an all-zero cell prediction, with        *)
(* th_cell >= 0 and any th_seed, the seed loop takes no more turns than    *)
(* bring th_seed to 0.05 or below, and the call returns, without an error, *)
(* a label image that is all background.                                   *)
(***************************************************************************)
C7_EmptyCall ==
    /\ callee = "border_cell_post_processing"
    /\ \A p \in WsPixel : args.cell_prediction[p] = 0
    /\ args.th_cell >= 0

C7_EmptyInputDegrades ==
    C7_EmptyCall
        => /\ pc = "loop"
                => \/ last.iterations = 0
                   \/ args.th_seed - TH_SEED_STEP * (last.iterations - 1)
                          > TH_SEED_FLOOR
           /\ pc = "done"
                => /\ ret.err = None
                   /\ \A p \in WsPixel : ret.val.prediction_instance[p] = 0

\* the loop has lowered th_seed below 0, every pixel is a seed, and the
\* result is all background
C7_Witness ==
    /\ C7_EmptyCall
    /\ pc = "done"
    /\ last.iterations > 0
    /\ Positive(seeds) = WsPixel
    /\ ret.err = None
    /\ \A p \in WsPixel : ret.val.prediction_instance[p] = 0

(***************************************************************************)
(* C8.  Seed-recovery loop termination: every turn of the while loop of    *)
(* border_cell_post_processing lowers th_seed by 0.1 and is taken only     *)
(* while the seed map is empty and th_seed > 0.05; the loop is left as     *)
(* soon as a seed survives or th_seed <= 0.05; the number of turns is      *)
(* bounded by the initial th_seed, so that the loop ends; and on exit the  *)
(* seed map is non-empty or th_seed <= 0.05.                               *)
(***************************************************************************)
C8_SeedLoopTermination ==
    /\ [][(pc = "loop" /\ pc' = "loop")
            => /\ th_seed' = th_seed - TH_SEED_STEP
               /\ th_seed' < th_seed
               /\ Positive(seeds) = {}
               /\ th_seed > TH_SEED_FLOOR]_vars
    /\ [][(pc = "loop" /\ (Positive(seeds) # {} \/ th_seed <= TH_SEED_FLOOR))
            => pc' \in {"merge", "done"}]_vars
    /\ [](pc \in {"loop", "merge", "done"}
            => /\ th_seed = args.th_seed - TH_SEED_STEP * last.iterations
               /\ last.iterations > 0
                    => th_seed + TH_SEED_STEP > TH_SEED_FLOOR)
    /\ [](pc \in {"merge", "done"}
            => (Positive(seeds) # {} \/ th_seed <= TH_SEED_FLOOR))

\* the loop has bottomed out: several turns, no seed, th_seed <= 0.05
C8_Witness ==
    /\ callee = "border_cell_post_processing"
    /\ pc = "done"
    /\ last.iterations > 1
    /\ Positive(seeds) = {}
    /\ th_seed <= TH_SEED_FLOOR
    /\ \E p \in WsPixel : args.cell_prediction[p] > 0

(***************************************************************************)
(* C11.  Canonical relabelling: the image returned by                      *)
(* add_nuclei_by_overlapping, refine_objects_by_overlapping or             *)
(* add_objects_by_overlapping, called on a canonically labelled base       *)
(* image, has the non-zero labels 1..N, each on one connected region.      *)
(***************************************************************************)
C11_Canonical(img) ==
    /\ Ids(img) = 1 .. Cardinality(Ids(img))
    /\ \A v \in Ids(img) : Equal(img, v) \in Components(img)

C11_CanonicalRelabelling ==
    (/\ pc = "done"
     /\ callee \in {"add_nuclei_by_overlapping",
                    "refine_objects_by_overlapping",
                    "add_objects_by_overlapping"}
     /\ C11_Canonical(args.base_image))
        => C11_Canonical(ret.val)

(***************************************************************************)
(* C12.  Object-add host-size policy: in a turn of                         *)
(* add_objects_by_overlapping whose object overlaps the base image and     *)
(* exactly one component of the working image, within the allowed overlap  *)
(* ratio, the object is stamped with the counter, which advances, when the *)
(* component has at least min_cell_area pixels, and nothing changes when   *)
(* the component is smaller.                                               *)
(***************************************************************************)
C12_Hosts ==
    {C \in Components(last.before) :
        /\ C \cap last.region # {}
        /\ RatioLeq(<<Cardinality(C \cap last.region),
                      Cardinality(last.region)>>, args.cells_overlap)}

C12_HostSizePolicy ==
    (/\ callee = "add_objects_by_overlapping"
     /\ last.kind \in {"carve", "discard", "no_host"}
     /\ Cardinality(C12_Hosts) = 1)
        => LET host == CHOOSE C \in C12_Hosts : TRUE
           IN  IF Cardinality(host) >= args.min_cell_area
               THEN /\ \A p \in last.region : image[p] = last.counter
                    /\ next_usable_label = last.counter + 1
               ELSE /\ image = last.before
                    /\ next_usable_label = last.counter

(***************************************************************************)
(* C13.  get_minimum_area_to_remove(labelImage, percentage) returns the    *)
(* larger of 4 and percentage x the mean area of the regions of            *)
(* labelImage, for every label image with at least one region.             *)
(***************************************************************************)
C13_MinimumAreaValue ==
    (/\ pc = "done"
     /\ callee = "get_minimum_area_to_remove"
     /\ Ids(args.connected_components) # {})
        => LET expected == Floored(MeanShare(args.connected_components,
                                             args.percentage))
           IN  /\ ret.err = None
               /\ ret.val * expected[2] = expected[1]

(***************************************************************************)
(* C14.  get_minimum_area_to_remove raises an error exactly when its array *)
(* has zero elements; for a non-empty array that is all background it      *)
(* raises nothing and returns its minimum area.                            *)
(***************************************************************************)
C14_ErrorOnlyOnEmptyArray ==
    (pc = "done" /\ callee = "get_minimum_area_to_remove")
        => /\ (ret.err # None) <=> (DOMAIN args.connected_components = {})
           /\ (/\ DOMAIN args.connected_components # {}
               /\ Ids(args.connected_components) = {})
                => ret.val = MIN_AREA

\* C14 as stated: an error whenever the label image has zero components
C14_ErrorOnZeroComponents ==
    (/\ pc = "done"
     /\ callee = "get_minimum_area_to_remove"
     /\ Ids(args.connected_components) = {})
        => ret.err # None

\* a non-empty array that is all background has been given a minimum area
C14_Witness ==
    /\ pc = "done"
    /\ callee = "get_minimum_area_to_remove"
    /\ args.connected_components = Zeros
    /\ ret.err = None
    /\ ret.val = MIN_AREA

(***************************************************************************)
(* C15.  remove_smaller_areas raises an error, returning no image and      *)
(* leaving its input as it was, if area_threshold < 0 or the input array   *)
(* has zero elements; for every other input it raises nothing and leaves   *)
(* its input as it was.                                                    *)
(***************************************************************************)
C15_AreaValidation ==
    [][(callee = "remove_smaller_areas" /\ pc = "call")
        => /\ pc' = "done"
           /\ args' = args
           /\ (ret'.err # None)
                <=> (args.area_threshold < 0 \/ DOMAIN args.seeds = {})
           /\ ret'.err # None => ret'.val = None]_vars

\* a call with a negative threshold on an image with regions has raised
C15_Witness ==
    /\ callee = "remove_smaller_areas"
    /\ pc = "done"
    /\ args.area_threshold < 0
    /\ Ids(args.seeds) # {}
    /\ ret.err = "ValueError"

C17_Rank ==
    LET regions == regionprops(args.single_channel_image)
        scanned == Len(regions) - Len(todo)
    IN  Cardinality({i \in 1 .. scanned :
            Equal(args.single_channel_image, regions[i])
                \cap Positive(args.base_image) = {}})

C17_NucleiNewLabels ==
    (callee = "add_nuclei_by_overlapping" /\ last.kind = "new")
        => /\ \A p \in last.region :
                image[p] = Max({args.base_image[q] : q \in Pixel}) + C17_Rank
           /\ \A p \in Pixel \ last.region : image[p] = last.before[p]

\* the second new region has been stamped on a base image with labels
C17_Witness ==
    /\ callee = "add_nuclei_by_overlapping"
    /\ last.kind = "new"
    /\ C17_Rank = 2
    /\ Ids(args.base_image) # {}
    /\ \A p \in last.region : image[p] = get_maximum_label(args.base_image) + 2

(***************************************************************************)
(* C18.  get_nuclei_connected_components returns the lowest label of the   *)
(* relabelled image whose component has a pixel in common with the query   *)
(* mask and at least minComponentArea pixels, however large the overlap    *)
(* ratio is; it returns (None, None, None) exactly when no label           *)
(* qualifies.                                                              *)
(***************************************************************************)
C18_Qualifying ==
    LET labels == label(args.original_image)
    IN  {l \in Ids(labels) :
            /\ \E p \in args.marker.mask : labels[p] = l
            /\ Cardinality({p \in Pixel : labels[p] = l})
                  >= args.minimum_component_dim}

C18_NucleiQuery ==
    (/\ pc = "done"
     /\ callee = "get_nuclei_connected_components"
     /\ ret.err = None)
        => /\ ret.val.none <=> (C18_Qualifying = {})
           /\ C18_Qualifying # {}
                => /\ ret.val.label = Min(C18_Qualifying)
                   /\ ret.val.mask = Equal(label(args.original_image),
                                           Min(C18_Qualifying))

\* the component returned has exactly the minimum area and holds the whole
\* query mask, and a lower label that meets the mask was too small
C18_Witness ==
    /\ pc = "done"
    /\ callee = "get_nuclei_connected_components"
    /\ ret.err = None
    /\ ~ret.val.none
    /\ Cardinality(ret.val.mask) = args.minimum_component_dim
    /\ args.marker.mask \subseteq ret.val.mask
    /\ \E p \in Pixel :
        /\ label(args.original_image)[p] # 0
        /\ label(args.original_image)[p] < ret.val.label

(***************************************************************************)
(* C19.  Both overlap queries raise an error, returning nothing, whenever  *)
(* the query mask is not of boolean type, and raise nothing for a boolean  *)
(* query mask.                                                             *)
(***************************************************************************)
C19_BooleanMarker ==
    (/\ pc = "done"
     /\ callee \in {"get_overlapping_components",
                    "get_nuclei_connected_components"})
        => /\ (ret.err # None) <=> (args.marker.dtype # "bool")
           /\ ret.err # None => ret.val = None

\* a query with an integer mask over components that it covers has raised
C19_Witness ==
    /\ pc = "done"
    /\ callee = "get_nuclei_connected_components"
    /\ args.marker.dtype = "int64"
    /\ args.marker.mask \cap Positive(args.original_image) # {}
    /\ ret.err = "ValueError"

C21_Primary == simple_binary_mask_post_processing(args.mask, AREAS_TO_REMOVE)

C21_SingleChannel == simple_binary_mask_post_processing(args.sc_mask, AREAS_TO_REMOVE)

C21_Nuclei == simple_binary_mask_post_processing(args.nuclei_mask, NUCLEI_AREAS_TO_REMOVE)

C21_First == add_nuclei_by_overlapping(C21_Primary, C21_Nuclei, MIN_CELL_AREA)

C21_Second == refine_objects_by_overlapping(C21_First, C21_SingleChannel, MAX_CELL_AREA)

C21_Third == add_objects_by_overlapping(C21_Second, C21_SingleChannel, CELLS_OVERLAP, MIN_CELL_AREA)

C21_FusionChain ==
    /\ pc = "refine" => last.prediction_instance = C21_First
    /\ pc = "add_objects" => last.processed_prediction = C21_Second
    /\ pc = "return" /\ args.just_evs =>
           last.refined_evs_prediction = C21_Third
    /\ pc = "done" /\ args.just_evs =>
           /\ ret.err = None
           /\ ret.val = <<astype_uint16(C21_Third), astype_uint16(C21_Third)>>
           /\ ret.val[1] = ret.val[2]

\* a call whose three passes all change the map they are given
C21_Witness ==
    /\ pc = "done"
    /\ args.just_evs
    /\ ret.err = None
    /\ C21_First # C21_Primary
    /\ C21_Second # C21_First
    /\ C21_Third # C21_Second
    /\ Positive(ret.val[1]) # {}

(***************************************************************************)
(* C28.  fusion_post_processing completes for both values of just_evs: it  *)
(* raises nothing, and with just_evs false it returns, twice, the label    *)
(* map of the thresholded primary prediction.                              *)
(***************************************************************************)
C28_FusionCompletes ==
    pc = "done" =>
        /\ ret.err = None
        /\ ~args.just_evs =>
               ret.val = <<astype_uint16(C21_Primary), astype_uint16(C21_Primary)>>

(***************************************************************************)
(* C22.  Idempotence of the canonical relabelling: measure.label, as       *)
(* called at the end of remove_smaller_areas and of the two adding passes, *)
(* returns a label image unchanged when its ids are 1..N, each on one      *)
(* connected region, in the raster order of the regions' first pixels; the *)
(* image remove_smaller_areas returns is such an image.                    *)
(***************************************************************************)
C22_First(img, v) ==
    CHOOSE p \in Equal(img, v) :
        \A q \in Equal(img, v) :
            p = q \/ p[1] < q[1] \/ (p[1] = q[1] /\ p[2] < q[2])

C22_Canonical(img) ==
    /\ Ids(img) = 1 .. Cardinality(Ids(img))
    /\ \A v \in Ids(img) : Equal(img, v) \in Components(img)
    /\ \A v, w \in Ids(img) :
           v < w => LET p == C22_First(img, v)
                        q == C22_First(img, w)
                    IN  p[1] < q[1] \/ (p[1] = q[1] /\ p[2] < q[2])

C22_RelabelIdempotent ==
    /\ C22_Canonical(args.seeds) => label(args.seeds) = args.seeds
    /\ pc = "done" /\ ret.err = None =>
           /\ C22_Canonical(ret.val)
           /\ label(ret.val) = ret.val

\* a canonical input of two regions that touch, returned with both regions
C22_Witness ==
    /\ pc = "done"
    /\ ret.err = None
    /\ C22_Canonical(args.seeds)
    /\ Cardinality(Ids(args.seeds)) = 2
    /\ \E p \in Equal(args.seeds, 1), q \in Equal(args.seeds, 2) : Adjacent(p, q)
    /\ ret.val = args.seeds

(***************************************************************************)
(* C23.  border_cell_post_processing returns a label image whose non-zero  *)
(* labels are the consecutive integers 1..N, whatever the input and        *)
(* whether the merge pass runs or not.                                     *)
(***************************************************************************)
C23_ConsecutiveLabels ==
    pc = "done" /\ ret.err = None =>
        Ids(ret.val.prediction_instance)
            = 1 .. Cardinality(Ids(ret.val.prediction_instance))

(***************************************************************************)
(* C24.  Merge-pass guard: the merge pass runs exactly when apply_merging  *)
(* is true and the watershed result has fewer instances than the limit;    *)
(* when it does not run, the returned label image is the watershed result, *)
(* pixel for pixel.                                                        *)
(***************************************************************************)
C24_MergeGuard ==
    pc = "done" /\ ret.err = None =>
        /\ last.kind = "merge"
               <=> MergeGuardByCount(Flooded(args, seeds), args.apply_merging)
        /\ last.kind = "no_merge" =>
               ret.val.prediction_instance = Flooded(args, seeds)

(***************************************************************************)
(* C25.  Merge rule: a turn of the merge loop, for a group of border       *)
(* pixels, merges exactly when the mean border prediction over the group   *)
(* is below 0.075 and the 3x3 dilation of the group touches exactly two    *)
(* instance ids; it then gives every pixel of the second (larger) id the   *)
(* first id.  In every other case the turn changes no pixel.  The image    *)
(* returned after the loop is canonically labelled.                        *)
(***************************************************************************)
C25_Touched ==
    {last.before[p] :
        p \in {q \in WsPixel :
                  \E g \in last.pred_border :
                      Abs(q[1] - g[1]) <= 1 /\ Abs(q[2] - g[2]) <= 1}} \ {0}

C25_LowMean ==
    LET total == Sum([p \in WsPixel |->
                         clip(args.border_prediction[p], 0, 100)],
                     last.pred_border)
    IN  2 * total < 15 * Cardinality(last.pred_border)

C26_Foreground ==
    {p \in WsPixel : gaussian_filter(args.cell_prediction)[p] > args.th_cell * Unit}

C26_ForegroundConfinement ==
    /\ pc = "merge" => Positive(image) \subseteq C26_Foreground
    /\ pc = "done" /\ ret.err = None =>
           Positive(ret.val.prediction_instance) \subseteq C26_Foreground

\* a call whose loop went down to a th_seed below 0, with seed pixels
\* outside the foreground and a result that is not empty
C26_Witness ==
    /\ pc = "done"
    /\ ret.err = None
    /\ th_seed < 0
    /\ Positive(seeds) \ C26_Foreground # {}
    /\ Positive(seeds) \cap C26_Foreground # {}
    /\ Positive(ret.val.prediction_instance) # {}

(***************************************************************************)
(* C27.  Object-add frame: in the image add_objects_by_overlapping         *)
(* returns, a pixel outside the 9x9 dilation of every region of the        *)
(* single-channel image is background exactly when it is background in the *)
(* base image, and two such pixels of one returned region were in one      *)
(* region of the base image; a turn that discards its object changes no    *)
(* pixel.                                                                  *)
(***************************************************************************)
C27_Far ==
    {p \in Pixel :
        \A q \in Positive(args.single_channel_image) :
            Abs(p[1] - q[1]) > 4 \/ Abs(p[2] - q[2]) > 4}

C27_ObjectAddFrame ==
    /\ pc = "loop" /\ last.kind = "discard" => image = last.before
    /\ pc = "done" =>
           /\ \A p \in C27_Far : ret.val[p] = 0 <=> args.base_image[p] = 0
           /\ \A p, q \in C27_Far :
                  ret.val[p] # 0 /\ ret.val[p] = ret.val[q] =>
                      args.base_image[p] = args.base_image[q]

(***************************************************************************)
(* C29.  Nuclei-add only grows the foreground: in the image                *)
(* add_nuclei_by_overlapping returns, every pixel that is non-zero in the  *)
(* base image is non-zero and every other non-zero pixel belongs to a      *)
(* region of the nuclei image; and a turn whose nuclei region overlaps the *)
(* base image on components smaller than min_cell_area only leaves the     *)
(* working image as it was.                                                *)
(***************************************************************************)
C29_SmallHostsOnly ==
    /\ last.region \cap Positive(args.base_image) # {}
    /\ \A C \in Components(args.base_image) :
           C \cap last.region # {} => Cardinality(C) < args.min_cell_area

C29_Grows ==
    pc = "done" =>
        /\ Positive(args.base_image) \subseteq Positive(ret.val)
        /\ Positive(ret.val) \ Positive(args.base_image)
               \subseteq Positive(args.single_channel_image)

C29_NucleiAddGrows ==
    /\ C29_Grows
    /\ (/\ pc = "loop"
        /\ last.kind \in {"new", "union", "no_host"}
        /\ C29_SmallHostsOnly) => image = last.before

(***************************************************************************)
(* C30.  The three passes of the fusion leave their arguments as they      *)
(* were: no step of add_nuclei_by_overlapping,                             *)
(* refine_objects_by_overlapping or add_objects_by_overlapping changes a   *)
(* pixel of the base image or of the second image it was called with.      *)
(***************************************************************************)
C30_ArgumentsKept == [][args' = args]_vars

\* a pass that returned an image other than its base image
C30_Witness ==
    /\ pc = "done"
    /\ callee \in {"add_nuclei_by_overlapping",
                   "refine_objects_by_overlapping",
                   "add_objects_by_overlapping"}
    /\ ret.val # args.base_image
    /\ Positive(args.base_image) # {}

====
